---- MODULE Spec2Model ----
(***************************************************************************)
(* ADS_set<Key, N>: a set stored in a linear-hashing table (src/ADS_set.h). *)
(* The table is an array of buckets, a bucket is a chain of slices of at   *)
(* most N keys.  An insert that makes a bucket chain a new slice splits    *)
(* the bucket at table_split_index.                                        *)
(***************************************************************************)
EXTENDS Integers, Sequences, FiniteSets, TLC

(* ------------------------------ bounds --------------------------------- *)

\* Slice capacity, the template parameter N of the instance that is checked.
N == 1

\* Keys are the integers 0 .. MaxKey.
MaxKey == 6

\* Longest range handed to one insert(first, last) call.
MaxBatch == 2

\* Keys handed to the two sets of the specification with swap and clear
\* are the integers 0 .. MaxSwapKey.
MaxSwapKey == 3

\* The lists a set is built from in the scenarios are the progressions
\* first, first + step, ... of at most MaxLen keys, with first in
\* 0 .. MaxFirst and step in 1 .. MaxStep.
MaxFirst == 3

MaxStep == 4

MaxLen == 12

\* The default of the template parameter N (template<typename Key, size_t N = 5>).
DefaultN == 5

\* Width in bits kept for size_type counters: arithmetic on them wraps
\* modulo 2^SizeBits, as unsigned arithmetic does in the build.
SizeBits == 5

Keys == 0 .. MaxKey

SwapKeys == 0 .. MaxSwapKey

ScenarioLists ==
    { [i \in 1 .. len |-> first + step * (i - 1)] :
        first \in 0 .. MaxFirst, step \in 1 .. MaxStep, len \in 0 .. MaxLen }

ScenarioKeys == 0 .. MaxFirst + MaxStep * MaxLen

SizeMod == 2 ^ SizeBits

\* The ranges one insert call may be given.
Batches == UNION { [1 .. n -> Keys] : n \in 1 .. MaxBatch }

(* ------------------------------ state ---------------------------------- *)

VARIABLES
    table,              \* Bucket* table: index -> bucket, for 0 .. table_size-1
    split_round,        \* size_type split_round
    table_split_index,  \* size_type table_split_index
    table_size,         \* size_type table_size
    table_items_size,   \* size_type table_items_size
    out_of_bounds,      \* an access table[i] with i >= table_size has happened
    last,               \* history: what the latest top-level add did
    inserted,           \* history: the keys handed to insert so far
    other,              \* a second ADS_set object, the argument of swap
    other_inserted,     \* history: the keys handed to insert on other
    op,                 \* history: the latest public call on this object
    targets             \* history: << split_round, table_split_index >> at
                        \* the start of every split() the inserts have run

vars == << table, split_round, table_split_index, table_size,
           table_items_size, out_of_bounds, last, inserted,
           other, other_inserted, op, targets >>

(* ------------------------------ Bucket --------------------------------- *)

\* A freshly constructed Bucket: head = tail = one empty Slice, size 0.
\* A slice is the sequence values[0 .. size-1]; a bucket's chain is the
\* sequence of its slices from head to tail.
EmptyBucket == [slices |-> << << >> >>, size |-> 0]

\* Bucket::locate(key) != nullptr
BucketLocate(b, key) ==
    \E j \in 1 .. Len(b.slices) :
        \E i \in 1 .. Len(b.slices[j]) : b.slices[j][i] = key

\* Bucket::add that tests slice->size > N instead of >= N (line 186).
BucketAdd_gt(n, b, key) ==
    LET tail      == b.slices[Len(b.slices)]
        overflown == Len(tail) > n
        chain     == IF overflown THEN Append(b.slices, << >>) ELSE b.slices
        slice     == Len(chain)
    IN  [bucket    |-> [slices |-> [chain EXCEPT ![slice] = Append(@, key)],
                        size   |-> (b.size + 1) % SizeMod],
         overflown |-> overflown]

\* Bucket::add with overflown = true of line 190 forgotten.
BucketAdd_noflag(n, b, key) ==
    LET tail      == b.slices[Len(b.slices)]
        overflown == Len(tail) >= n
        chain     == IF overflown THEN Append(b.slices, << >>) ELSE b.slices
        slice     == Len(chain)
    IN  [bucket    |-> [slices |-> [chain EXCEPT ![slice] = Append(@, key)],
                        size   |-> (b.size + 1) % SizeMod],
         overflown |-> FALSE]

\* Bucket::add with the ++size of line 197 forgotten.
BucketAdd_nosize(n, b, key) ==
    LET tail      == b.slices[Len(b.slices)]
        overflown == Len(tail) >= n
        chain     == IF overflown THEN Append(b.slices, << >>) ELSE b.slices
        slice     == Len(chain)
    IN  [bucket    |-> [slices |-> [chain EXCEPT ![slice] = Append(@, key)],
                        size   |-> b.size],
         overflown |-> overflown]

\* Bucket::add(key) on an instance with slice capacity n: the bucket after
\* the call and the returned flag.
BucketAdd(n, b, key) ==
    LET tail      == b.slices[Len(b.slices)]
        overflown == Len(tail) >= n
        chain     == IF overflown THEN Append(b.slices, << >>) ELSE b.slices
        slice     == Len(chain)
    IN  [bucket    |-> [slices |-> [chain EXCEPT ![slice] = Append(@, key)],
                        size   |-> (b.size + 1) % SizeMod],
         overflown |-> overflown]

RECURSIVE Flatten(_)
Flatten(chain) ==
    IF chain = << >> THEN << >> ELSE Head(chain) \o Flatten(Tail(chain))

\* Bucket::copy(values): the keys written to the buffer, slice after slice.
BucketCopy(b) == Flatten(b.slices)

\* Bucket::clear that resets size but keeps the old chain (lines 227-228
\* forgotten).
BucketClear_keep(b) == [slices |-> b.slices, size |-> 0]

\* Bucket::clear(): a new single empty slice replaces the chain.
BucketClear(b) == [slices |-> << << >> >>, size |-> 0]

(* ------------------------------ Table ---------------------------------- *)

\* std::hash<Key> on an integer key is the key itself.
hash(key) == key

\* h that takes the round itself as the modulus.
h_round(s, key) == hash(key) % s.split_round

h(s, key) == hash(key) % (2 ^ s.split_round)

g(s, key) == hash(key) % (2 ^ (s.split_round + 1))

bucket_at(s, key) ==
    LET index == h(s, key)
    IN  IF index < s.table_split_index THEN g(s, key) ELSE index

\* locate that addresses the bucket with h alone instead of bucket_at.
locate_h(s, key) ==
    LET index == h(s, key)
    IN  index < s.table_size /\ BucketLocate(s.table[index], key)

\* ADS_set::locate(key) != nullptr.  Reading table[index] beyond the array
\* is recorded by the callers in out_of_bounds; here it finds nothing.
locate(s, key) ==
    LET index == bucket_at(s, key)
    IN  index < s.table_size /\ BucketLocate(s.table[index], key)

count(s, key) == IF locate(s, key) THEN 1 ELSE 0

size(s) == s.table_items_size

empty(s) == s.table_items_size = 0

\* ADS_set::copy and ADS_set::reserve: a new array of new_table_size
\* default-constructed buckets receives the old buckets member by member
\* (the slice chains are shared, the old array is released without freeing
\* them).
reserve(s, new_table_size) ==
    [s EXCEPT !.table = [i \in 0 .. new_table_size - 1 |->
                            IF i < s.table_size THEN s.table[i]
                                                ELSE EmptyBucket],
              !.table_size = new_table_size]

\* What the running top-level add has done so far; kept beside the object
\* while a call runs and stored in the variable last when it returns.
\*   splits         executions of split()
\*   same           split() cleared the bucket that had just received the key
\*   other          split() cleared another bucket than that one
\*   readd_overflow an add(values[i], false) inside split chained a new slice
\*   wrapped        table_items_size -= to_split_size went below zero
\*   targets        << split_round, table_split_index >> at the start of
\*                  the executions of split(), kept over the adds of one
\*                  call of insert and stored in the variable targets
NoTrace ==
    [splits |-> 0, same |-> FALSE, other |-> FALSE,
     readd_overflow |-> FALSE, wrapped |-> FALSE, targets |-> << >>]

\* split_reserve that compares with the next round's bucket count.
split_reserve_late(s) ==
    IF s.table_size = 2 ^ (s.split_round + 1)
    THEN reserve(s, s.table_size * 2) ELSE s

\* split_reserve that doubles whenever the next round would fill the array.
split_reserve_eager(s) ==
    IF s.table_size <= 2 ^ (s.split_round + 1)
    THEN reserve(s, s.table_size * 2) ELSE s

\* split(), lines 274-276: double the array when the round has used it up.
split_reserve(s) ==
    IF s.table_size = 2 ^ s.split_round
    THEN reserve(s, s.table_size * 2) ELSE s

\* split_take with the subtraction of line 284 forgotten.
split_take_nosub(s) ==
    LET idx == s.table_split_index
    IN  [s EXCEPT
           !.table[idx] = BucketClear(s.table[idx]),
           !.trace.splits = @ + 1,
           !.trace.targets = Append(@, << s.split_round, idx >>)]

\* split(), lines 278-284: empty the bucket at table_split_index and take
\* its size off the item count.  The caller has checked the index.
split_take(s) ==
    LET idx           == s.table_split_index
        to_split_size == s.table[idx].size
    IN  [s EXCEPT
           !.table[idx] = BucketClear(s.table[idx]),
           !.table_items_size = (@ - to_split_size) % SizeMod,
           !.trace.wrapped = @ \/ (to_split_size > s.table_items_size),
           !.trace.splits = @ + 1,
           !.trace.targets = Append(@, << s.split_round, idx >>)]

\* split_advance that starts the next round two buckets early.
split_advance_early(s) ==
    IF s.table_split_index + 2 >= 2 ^ s.split_round
    THEN [s EXCEPT !.table_split_index = 0, !.split_round = @ + 1]
    ELSE [s EXCEPT !.table_split_index = @ + 1]

\* split(), lines 286-291: move the split pointer.
split_advance(s) ==
    IF s.table_split_index >= 2 ^ s.split_round
    THEN [s EXCEPT !.table_split_index = 0, !.split_round = @ + 1]
    ELSE [s EXCEPT !.table_split_index = @ + 1]

RECURSIVE add(_, _, _, _), split(_, _), readd(_, _, _, _, _)
RECURSIVE readd_short(_, _, _, _, _), readd_overflowable(_, _, _, _, _)

\* readd whose loop stops one element early (i < to_split_size - 1).
readd_short(n, s, values, i, to_split_size) ==
    IF i > to_split_size - 1 THEN s
    ELSE readd_short(n, add(n, s, values[i], FALSE), values, i + 1,
                     to_split_size)

\* readd that leaves overflowable at its default, true.
readd_overflowable(n, s, values, i, to_split_size) ==
    IF i > to_split_size THEN s
    ELSE readd_overflowable(n, add(n, s, values[i], TRUE), values, i + 1,
                            to_split_size)

\* split(), lines 293-295: for (i = 0; i < to_split_size; ++i)
\* add(values[i], false); values is indexed from 1 here.
readd(n, s, values, i, to_split_size) ==
    IF i > to_split_size THEN s
    ELSE readd(n, add(n, s, values[i], FALSE), values, i + 1, to_split_size)

\* split that re-inserts the keys before it moves the split pointer.
split_readd_first(n, s) ==
    LET s1  == split_reserve(s)
        idx == s1.table_split_index
    IN  IF idx >= s1.table_size
        THEN [s1 EXCEPT !.out_of_bounds = TRUE]
        ELSE LET to_split_size == s1.table[idx].size
                 values        == BucketCopy(s1.table[idx])
             IN  split_advance(readd(n, split_take(s1), values,
                                     1, to_split_size))

\* ADS_set::split()
split(n, s) ==
    LET s1  == split_reserve(s)
        idx == s1.table_split_index
    IN  IF idx >= s1.table_size
        THEN [s1 EXCEPT !.out_of_bounds = TRUE]
        ELSE LET to_split_size == s1.table[idx].size
                 values        == BucketCopy(s1.table[idx])
             IN  readd(n, split_advance(split_take(s1)), values,
                       1, to_split_size)

\* add without the early return of line 301 for a key that is present.
add_nocheck(n, s, key, overflowable) ==
    IF s.out_of_bounds THEN s
    ELSE
    LET index == bucket_at(s, key)
    IN  IF index >= s.table_size THEN [s EXCEPT !.out_of_bounds = TRUE]
        ELSE
        LET r  == BucketAdd(n, s.table[index], key)
            s1 == [s EXCEPT
                     !.table[index] = r.bucket,
                     !.trace.readd_overflow =
                         @ \/ (~overflowable /\ r.overflown)]
            s2 == IF overflowable /\ r.overflown
                  THEN [split(n, s1) EXCEPT
                          !.trace.same  = @ \/ (index = s1.table_split_index),
                          !.trace.other = @ \/ (index # s1.table_split_index)]
                  ELSE s1
        IN  [s2 EXCEPT !.table_items_size = (@ + 1) % SizeMod]

\* ADS_set::add(key, overflowable)
add(n, s, key, overflowable) ==
    IF s.out_of_bounds THEN s
    ELSE
    LET index == bucket_at(s, key)
    IN  IF index >= s.table_size THEN [s EXCEPT !.out_of_bounds = TRUE]
        ELSE IF count(s, key) # 0 THEN s
        ELSE
        LET r  == BucketAdd(n, s.table[index], key)
            s1 == [s EXCEPT
                     !.table[index] = r.bucket,
                     !.trace.readd_overflow =
                         @ \/ (~overflowable /\ r.overflown)]
            s2 == IF overflowable /\ r.overflown
                  THEN [split(n, s1) EXCEPT
                          !.trace.same  = @ \/ (index = s1.table_split_index),
                          !.trace.other = @ \/ (index # s1.table_split_index)]
                  ELSE s1
        IN  [s2 EXCEPT !.table_items_size = (@ + 1) % SizeMod]

\* insert(first, last): add(*it) for every element of the range, in order.
\* The trace restarts with every top-level add, but for its targets.
RECURSIVE insert(_, _, _)
insert(n, s, range) ==
    IF range = << >> THEN s
    ELSE insert(n, add(n, [s EXCEPT !.trace = [NoTrace EXCEPT
                                       !.targets = s.trace.targets]],
                       Head(range), TRUE),
                Tail(range))

\* ADS_set(): split_round 1, table_size 1u << split_round, new Bucket[table_size].
Construct ==
    [table             |-> [i \in 0 .. 1 |-> EmptyBucket],
     split_round       |-> 1,
     table_split_index |-> 0,
     table_size        |-> 2,
     table_items_size  |-> 0,
     out_of_bounds     |-> FALSE,
     trace             |-> NoTrace]

\* The object's own fields, without the record of what the call did.
Fields(s) == [s EXCEPT !.trace = NoTrace]

\* The object as a record, as a call finds it.
Self ==
    [table             |-> table,
     split_round       |-> split_round,
     table_split_index |-> table_split_index,
     table_size        |-> table_size,
     table_items_size  |-> table_items_size,
     out_of_bounds     |-> out_of_bounds,
     trace             |-> NoTrace]

Becomes(s) ==
    /\ table' = s.table
    /\ split_round' = s.split_round
    /\ table_split_index' = s.table_split_index
    /\ table_size' = s.table_size
    /\ table_items_size' = s.table_items_size
    /\ out_of_bounds' = s.out_of_bounds
    /\ last' = [s.trace EXCEPT !.targets = << >>]

\* swap that forgets the exchange of table_items_size (line 355).
swap_noitems(a, b) ==
    [this  |-> [a EXCEPT !.table = b.table,
                         !.split_round = b.split_round,
                         !.table_split_index = b.table_split_index,
                         !.table_size = b.table_size,
                         !.out_of_bounds = b.out_of_bounds],
     other |-> [b EXCEPT !.table = a.table,
                         !.split_round = a.split_round,
                         !.table_split_index = a.table_split_index,
                         !.table_size = a.table_size,
                         !.out_of_bounds = a.out_of_bounds]]

\* swap that exchanges the arrays but forgets table_size (line 354).
swap_nosize(a, b) ==
    [this  |-> [a EXCEPT !.table = b.table,
                         !.split_round = b.split_round,
                         !.table_split_index = b.table_split_index,
                         !.table_items_size = b.table_items_size,
                         !.out_of_bounds = b.out_of_bounds],
     other |-> [b EXCEPT !.table = a.table,
                         !.split_round = a.split_round,
                         !.table_split_index = a.table_split_index,
                         !.table_items_size = a.table_items_size,
                         !.out_of_bounds = a.out_of_bounds]]

\* ADS_set::swap(other), lines 351-355, member by member: this object and
\* the other one after the call.  The hasher of line 356, std::hash, holds
\* no state.  The mark of an access beyond an array goes with the array.
swap(a, b) ==
    [this  |-> [a EXCEPT !.table = b.table,
                         !.split_round = b.split_round,
                         !.table_split_index = b.table_split_index,
                         !.table_size = b.table_size,
                         !.table_items_size = b.table_items_size,
                         !.out_of_bounds = b.out_of_bounds],
     other |-> [b EXCEPT !.table = a.table,
                         !.split_round = a.split_round,
                         !.table_split_index = a.table_split_index,
                         !.table_size = a.table_size,
                         !.table_items_size = a.table_items_size,
                         !.out_of_bounds = a.out_of_bounds]]

\* ADS_set::clear(): ADS_set tmp; swap(tmp); tmp is destroyed on return.
clear(s) == swap(s, Construct).this

\* The record of a public call: its name, size() before it, and the range
\* it was given when the call builds a set from a list.
Call(name, items, range) == [name |-> name, items |-> items, range |-> range]

(* ------------------------------ actions -------------------------------- *)

Init ==
    /\ table = Construct.table
    /\ split_round = Construct.split_round
    /\ table_split_index = Construct.table_split_index
    /\ table_size = Construct.table_size
    /\ table_items_size = Construct.table_items_size
    /\ out_of_bounds = Construct.out_of_bounds
    /\ last = Construct.trace
    /\ inserted = {}
    /\ other = Construct
    /\ other_inserted = {}
    /\ op = Call("construct", 0, << >>)
    /\ targets = << >>

\* A call insert(first, last) / insert(ilist) of the public interface.
Insert ==
    \E range \in Batches :
        /\ ~out_of_bounds
        /\ LET r == insert(N, Self, range)
           IN  Becomes(r) /\ targets' = targets \o r.trace.targets
        /\ inserted' = inserted \cup { range[i] : i \in 1 .. Len(range) }
        /\ op' = Call("insert", 0, << >>)
        /\ UNCHANGED << other, other_inserted >>

Next == Insert

Spec == Init /\ [][Next]_vars

(* ---- two sets: insert on either, swap between them, clear ---- *)
\* (targets follows the single object of Spec and SpecScenario only.)

\* this->insert({k})
InsertThis ==
    \E k \in SwapKeys :
        /\ ~out_of_bounds
        /\ Becomes(insert(N, Self, << k >>))
        /\ inserted' = inserted \cup { k }
        /\ op' = Call("insert", 0, << >>)
        /\ UNCHANGED << other, other_inserted, targets >>

\* other.insert({k})
InsertOther ==
    \E k \in SwapKeys :
        /\ ~other.out_of_bounds
        /\ other' = Fields(insert(N, other, << k >>))
        /\ other_inserted' = other_inserted \cup { k }
        /\ UNCHANGED << table, split_round, table_split_index, table_size,
                        table_items_size, out_of_bounds, last, inserted, op,
                        targets >>

\* this->swap(other)
Swap ==
    LET r == swap(Self, other)
    IN  /\ Becomes(r.this)
        /\ other' = r.other
        /\ inserted' = other_inserted
        /\ other_inserted' = inserted
        /\ op' = Call("swap", table_items_size, << >>)
        /\ UNCHANGED targets

\* this->clear()
Clear ==
    /\ Becomes(clear(Self))
    /\ inserted' = {}
    /\ op' = Call("clear", table_items_size, << >>)
    /\ UNCHANGED << other, other_inserted, targets >>

NextTwoSets == InsertThis \/ InsertOther \/ Swap \/ Clear

SpecTwoSets == Init /\ [][NextTwoSets]_vars

(* ---- scenarios: a set of the default capacity built from a list ---- *)

\* ADS_set<Key>(ilist): ADS_set {} followed by insert(ilist), line 112.
Build ==
    \E ilist \in ScenarioLists :
        /\ op = Call("construct", 0, << >>) /\ inserted = {}
        /\ LET r == insert(DefaultN, Construct, ilist)
           IN  Becomes(r) /\ targets' = r.trace.targets
        /\ inserted' = { ilist[i] : i \in 1 .. Len(ilist) }
        /\ op' = Call("construct", 0, ilist)
        /\ UNCHANGED << other, other_inserted >>

NextScenario == Build

SpecScenario == Init /\ [][NextScenario]_vars

(* ------------------------------ helpers -------------------------------- *)

\* The keys held in the slices of a bucket.
KeysOf(b) == { BucketCopy(b)[i] : i \in 1 .. Len(BucketCopy(b)) }

\* The tail slice of a bucket.
TailOf(b) == b.slices[Len(b.slices)]

RECURSIVE SumSizes(_, _)
\* The sum of the size fields of the buckets tbl[0 .. n-1].
SumSizes(tbl, n) == IF n = 0 THEN 0 ELSE tbl[n - 1].size + SumSizes(tbl, n - 1)

(* ------------------------------ claims --------------------------------- *)

\* C1 (lookup correctness): after any sequence of inserts on a freshly
\* constructed table, count(k) is 1 for every key that was inserted and 0
\* for every key that was not, whatever splits and array doublings later
\* inserts have caused.
C1_LookupCorrect ==
    \A k \in Keys : count(Self, k) = IF k \in inserted THEN 1 ELSE 0

\* C1 witness: the array has been doubled twice and the round incremented,
\* and an inserted key that now lives in the upper half is still found.
C1_Witness ==
    /\ split_round = 2
    /\ table_size = 8
    /\ \E k \in inserted : bucket_at(Self, k) >= 4 /\ count(Self, k) = 1
    /\ \E k \in Keys : k \notin inserted

\* C2 (count consistency): once an insert call has returned, size() is the
\* number of distinct keys inserted so far and empty() holds exactly when
\* that number is 0.
C2_CountConsistent ==
    /\ size(Self) = Cardinality(inserted)
    /\ empty(Self) <=> (Cardinality(inserted) = 0)

\* C2 witness: the latest add split the very bucket that received its
\* key, after several distinct keys.
C2_Witness ==
    /\ last.splits = 1 /\ last.same
    /\ Cardinality(inserted) >= 4
    /\ size(Self) = Cardinality(inserted)

\* C3 (bucket-index correctness): after a public operation has returned,
\* every key stored in bucket i is addressed to i by bucket_at under the
\* current split_round and table_split_index.
C3_BucketIndexCorrect ==
    \A i \in 0 .. table_size - 1 :
        \A k \in KeysOf(table[i]) : bucket_at(Self, k) = i

\* C3 witness: the latest add ran the split that incremented the round and
\* reset the pointer, and keys sit in buckets of the upper half.
C3_Witness ==
    /\ last.splits = 1
    /\ split_round = 2 /\ table_split_index = 0
    /\ KeysOf(table[2]) # {} /\ KeysOf(table[3]) # {}

\* C4 (idempotence of insert): in every reachable state, insert(k) of a key
\* k that is present changes nothing (counters, buckets and their slices,
\* split state, array size) and runs no split; and inserting any key twice
\* in a row gives the state that inserting it once gives.
C4_InsertIdempotent ==
    \A k \in Keys :
        /\ locate(Self, k) => insert(N, Self, << k >>) = Self
        /\ Fields(insert(N, Self, << k, k >>)) = Fields(insert(N, Self, << k >>))

\* C4 witness: a key is present in a bucket whose tail slice is full, so
\* that storing it again would chain a new slice.
C4_Witness ==
    \E k \in inserted :
        /\ locate(Self, k)
        /\ Len(TailOf(table[bucket_at(Self, k)])) = N
        /\ table_items_size >= 3

\* C5 (no duplicate storage): in every reachable state no bucket holds the
\* same key at two positions of its slice chain.
C5_NoDuplicateStorage ==
    \A i \in 0 .. table_size - 1 :
        LET values == BucketCopy(table[i])
        IN  \A p, q \in 1 .. Len(values) : values[p] = values[q] => p = q

\* C5 witness: a bucket with a chain of two slices after a split whose
\* re-insertions chained a slice themselves.
C5_Witness ==
    /\ last.splits = 1 /\ last.readd_overflow
    /\ \E i \in 0 .. table_size - 1 : Len(table[i].slices) >= 2

\* C6 (split-pointer range): after a public operation has returned,
\* 0 <= table_split_index < 2^split_round; the pointer is never seen equal
\* to 2^split_round.
C6_SplitPointerInRange ==
    0 <= table_split_index /\ table_split_index < 2 ^ split_round

\* C7 (physical capacity): in every reachable state table_size is at least
\* 2^split_round + table_split_index, so the index bucket_at gives for any
\* key and the index table_split_index that split dereferences are below
\* table_size, and no access has left the array.
C7_CapacityCovers ==
    /\ table_size >= 2 ^ split_round + table_split_index
    /\ DOMAIN table = 0 .. table_size - 1
    /\ \A k \in Keys : bucket_at(Self, k) < table_size
    /\ table_split_index < table_size
    /\ ~out_of_bounds

\* C7 witness: the capacity is used up exactly, with the pointer past the
\* round's last bucket and a key stored in the topmost bucket.
C7_Witness ==
    /\ table_size = 2 ^ split_round + table_split_index
    /\ table_split_index > 0
    /\ KeysOf(table[table_size - 1]) # {}

\* C8 (growth): from every reachable state, the add of any key (every step
\* of every sequence of inserts) never makes table_size smaller; it changes
\* it only by doubling it, only inside a split, and only when table_size
\* was 2^split_round when that split began; an add that runs no split
\* leaves it unchanged.
C8_Growth ==
    \A k \in Keys :
        LET r == insert(N, Self, << k >>)
        IN  /\ r.table_size >= table_size
            /\ r.table_size \in { table_size, 2 * table_size }
            /\ r.table_size # table_size =>
                  r.trace.splits = 1 /\ table_size = 2 ^ split_round
            /\ r.trace.splits = 0 => r.table_size = table_size

\* C8 witness: the array has been doubled a second time, by the first split
\* of round 2, and a further add from here splits without doubling.
C8_Witness ==
    /\ table_size = 8 /\ split_round = 2 /\ table_split_index = 1
    /\ last.splits = 1
    /\ \E k \in Keys : LET r == insert(N, Self, << k >>)
                       IN  r.trace.splits = 1 /\ r.table_size = 8

\* C9 (item-count bookkeeping): after a public operation has returned,
\* table_items_size is the sum of the size fields of the buckets
\* table[0 .. table_size), whether the latest add split the bucket that
\* received its key or another one.
C9_ItemCountBookkeeping ==
    table_items_size = SumSizes(table, table_size)

\* C9 witness: the latest add split another bucket than the one that
\* received its key, and that bucket keeps its two slices.
C9_Witness ==
    /\ last.splits = 1 /\ last.other /\ ~last.same
    /\ table_items_size >= 3
    /\ \E i \in 0 .. table_size - 1 : table[i].size >= 2

\* C10 (split trigger): an insert of one key runs exactly one split when
\* the key was absent and the tail slice of the addressed bucket already
\* held N keys, and no split otherwise; the re-insertions made inside a
\* split start no further split, so no add runs more than one.
C10_SplitTrigger ==
    /\ last.splits <= 1
    /\ \A k \in Keys :
          LET r == insert(N, Self, << k >>)
          IN  r.trace.splits =
                 IF /\ ~locate(Self, k)
                    /\ Len(TailOf(table[bucket_at(Self, k)])) = N
                 THEN 1 ELSE 0

\* C10 witness: the latest add ran one split, and a re-insertion inside it
\* chained a new slice onto a bucket without starting another split.
C10_Witness ==
    /\ last.splits = 1 /\ last.readd_overflow /\ last.other
    /\ table_items_size >= 4

\* The state the claims about swap and clear speak of: bucket array,
\* split_round, table_split_index, table_size, table_items_size.
Tuple(s) ==
    << s.table, s.split_round, s.table_split_index, s.table_size,
       s.table_items_size >>

C13_OneSplitClaimed ==
    op.range = << 1, 2, 3, 4, 5, 6 >> =>
        << split_round, table_split_index >> # << 1, 0 >>

\* C13 as amended (scenario, N = 5): a set built from {1,2,3,4,5,6} has
\* run no split: it is still in (1, 0) with two buckets of three keys in
\* one slice each, since no bucket receives a sixth key; a list whose six
\* keys all address one bucket, {0,2,4,6,8,10}, leaves exactly one split
\* behind, (1, 1).
C13_NoSplitAlternating ==
    /\ op.range = << 1, 2, 3, 4, 5, 6 >> =>
          /\ << split_round, table_split_index >> = << 1, 0 >>
          /\ table_size = 2 /\ size(Self) = 6
          /\ table[0].slices = << << 2, 4, 6 >> >>
          /\ table[1].slices = << << 1, 3, 5 >> >>
    /\ op.range = << 0, 2, 4, 6, 8, 10 >> =>
          /\ << split_round, table_split_index >> = << 1, 1 >>
          /\ table_size = 4 /\ size(Self) = 6

\* C13 witness: the set has been built from {1,2,3,4,5,6}.
C13_Witness ==
    op.range = << 1, 2, 3, 4, 5, 6 >> /\ size(Self) = 6

\* C14 (scenario, N = 5): after the keys 1 .. 12 were inserted in order
\* into an empty set, size() is 12, count(k) is 1 for every k in 1 .. 12,
\* the split state has left (1, 0), and every bucket has at most two
\* slices, hence at most 10 keys.
C14_OneToTwelve ==
    op.range = [i \in 1 .. 12 |-> i] =>
        /\ size(Self) = 12
        /\ \A k \in 1 .. 12 : count(Self, k) = 1
        /\ << split_round, table_split_index >> # << 1, 0 >>
        /\ \A i \in 0 .. table_size - 1 :
              Len(table[i].slices) <= 2 /\ table[i].size <= 10

\* C14 witness: the keys 1 .. 12 are in, one split has run, and a bucket
\* has an overflow slice.
C14_Witness ==
    /\ op.range = [i \in 1 .. 12 |-> i]
    /\ table_split_index = 1
    /\ \E i \in 0 .. table_size - 1 : Len(table[i].slices) = 2

\* The table when the split of insert({k}) begins: the key has been stored
\* by Bucket::add (line 305), split() has not run yet.
TableAtSplit(k) == add(N, Self, k, FALSE).table

\* C15 (split redistribution and frame): let s be table_split_index and r
\* split_round when a split begins.  After it, bucket s + 2^r is a bucket
\* of the table that held no keys before, the keys that were in bucket s
\* are exactly the keys of bucket s and bucket s + 2^r together, none lost
\* and none twice, each in the bucket bucket_at gives under the updated
\* split state, and every other bucket keeps its contents and its slices.
C15_SplitRedistributes ==
    \A k \in Keys :
        LET post == insert(N, Self, << k >>)
            pre  == TableAtSplit(k)
            s    == table_split_index
            t    == table_split_index + 2 ^ split_round
        IN  post.trace.splits = 1 =>
              /\ t < post.table_size
              /\ t < table_size => KeysOf(pre[t]) = {}
              /\ KeysOf(pre[s]) =
                    KeysOf(post.table[s]) \cup KeysOf(post.table[t])
              /\ Len(BucketCopy(pre[s])) =
                    Len(BucketCopy(post.table[s]))
                       + Len(BucketCopy(post.table[t]))
              /\ \A key \in KeysOf(post.table[s]) : bucket_at(post, key) = s
              /\ \A key \in KeysOf(post.table[t]) : bucket_at(post, key) = t
              /\ \A i \in (0 .. post.table_size - 1) \ { s, t } :
                    post.table[i] =
                       IF i < table_size THEN pre[i] ELSE EmptyBucket

\* Number of logically addressable buckets of a table state.
Addressable(s) == 2 ^ s.split_round + s.table_split_index

\* C16 (one bucket of growth per split): every split raises the number of
\* addressable buckets, 2^split_round + table_split_index, by exactly one,
\* and re-addresses the keys of the split bucket with a doubled modulus;
\* no split returns every key to its bucket under an unchanged modulus.
C16_OneBucketPerSplit ==
    \A k \in Keys :
        LET post == insert(N, Self, << k >>)
        IN  post.trace.splits = 1 =>
              /\ Addressable(post) = Addressable(Self) + 1
              /\ \A key \in KeysOf(TableAtSplit(k)[table_split_index]) :
                    bucket_at(post, key) = hash(key) % 2 ^ (split_round + 1)

\* The object after n further executions of split().
RECURSIVE SplitsAhead(_, _)
SplitsAhead(s, n) == IF n = 0 THEN s ELSE SplitsAhead(split(N, s), n - 1)

\* How many of the splits recorded before position i started with target t.
TimesTarget(t, i) == Cardinality({ j \in 1 .. i - 1 : targets[j] = t })

\* C17 (split ordering and progress): within a round r the splits target
\* buckets in strictly increasing index order starting at 0; every bucket
\* of [0, 2^r) has been the target exactly once when split_round is
\* incremented; split_round never decreases; and a bucket b of [0, 2^r)
\* not yet split in this round is the target after b - table_split_index
\* further splits, after which its keys are addressed by g of round r.
C17_SplitOrder ==
    /\ \A i \in 1 .. Len(targets) :
          /\ i = 1 => targets[i] = << Construct.split_round, 0 >>
          /\ i > 1 =>
               LET p == targets[i - 1]
                   c == targets[i]
               IN  \/ c[1] = p[1] /\ c[2] = p[2] + 1
                   \/ /\ c[1] = p[1] + 1
                      /\ c[2] = 0
                      /\ \A b \in 0 .. 2 ^ p[1] - 1 :
                            TimesTarget(<< p[1], b >>, i) = 1
          /\ TimesTarget(targets[i], i) = 0
    /\ Len(targets) > 0 =>
          LET p == targets[Len(targets)]
          IN  \/ split_round = p[1] /\ table_split_index = p[2] + 1
              \/ /\ split_round = p[1] + 1
                 /\ table_split_index = 0
                 /\ \A b \in 0 .. 2 ^ p[1] - 1 :
                       TimesTarget(<< p[1], b >>, Len(targets) + 1) = 1
    /\ Len(targets) = 0 =>
          split_round = Construct.split_round /\ table_split_index = 0
    /\ \A k \in Keys : insert(N, Self, << k >>).split_round >= split_round
    /\ \A b \in table_split_index .. 2 ^ split_round - 1 :
          LET before == SplitsAhead(Self, b - table_split_index)
              after  == split(N, before)
          IN  /\ before.split_round = split_round
              /\ before.table_split_index = b
              /\ after.trace.splits = b - table_split_index + 1
              /\ \A key \in Keys :
                    hash(key) % 2 ^ split_round = b /\ locate(after, key) =>
                       bucket_at(after, key) =
                          hash(key) % 2 ^ (split_round + 1)

\* C17 witness: round 1 has been completed by splits at 0, 1, ... and a
\* split of round 2 has run, with buckets of round 2 still to be split.
C17_Witness ==
    /\ Len(targets) >= 4
    /\ targets[1] = << 1, 0 >>
    /\ targets[Len(targets)][1] = 2
    /\ table_split_index < 2 ^ split_round

RECURSIVE SumSlices(_)
\* The sum of the size fields of the slices of a chain.
SumSlices(chain) ==
    IF chain = << >> THEN 0 ELSE Len(Head(chain)) + SumSlices(Tail(chain))

\* C18 (bucket slice-chain invariant): in every reachable state, in every
\* bucket, each slice but the tail holds exactly N keys, the tail holds
\* between 0 and N keys, the size field is the sum of the slices' sizes,
\* and Bucket::clear leaves a single empty slice with size 0 in which no
\* key stored before can be located.
C18_SliceChain ==
    \A i \in 0 .. table_size - 1 :
        LET b == table[i]
            c == BucketClear(b)
        IN  /\ Len(b.slices) >= 1
            /\ \A j \in 1 .. Len(b.slices) - 1 : Len(b.slices[j]) = DefaultN
            /\ Len(TailOf(b)) \in 0 .. DefaultN
            /\ b.size = SumSlices(b.slices)
            /\ Len(c.slices) = 1
            /\ TailOf(c) = << >>
            /\ c.size = 0
            /\ \A key \in KeysOf(b) : ~BucketLocate(c, key)

\* C18 witness: after a split, a bucket with a full slice followed by a
\* partly filled tail, next to a bucket that holds no key.
C18_Witness ==
    /\ Len(targets) >= 1
    /\ \E i \in 0 .. table_size - 1 :
          /\ Len(table[i].slices) >= 2
          /\ Len(TailOf(table[i])) \in 1 .. DefaultN - 1
          /\ KeysOf(table[i]) # {}
          /\ BucketClear(table[i]) = EmptyBucket
    /\ \E i \in 0 .. table_size - 1 : table[i].size = 0

\* C19 (Bucket::add overflow signal): on any bucket and any key,
\* Bucket::add stores the key (size grows by exactly 1, the key can be
\* located in the bucket) and returns true exactly when the tail slice
\* held N keys before the call, which is exactly when the size before the
\* call was a positive multiple of N; then one new slice is appended with
\* the key as its first element, otherwise the key is appended to the tail.
C19_OverflowSignal ==
    \A i \in 0 .. table_size - 1 :
        \A k \in ScenarioKeys :
            LET b == table[i]
                r == BucketAdd(DefaultN, b, k)
            IN  /\ r.bucket.size = b.size + 1
                /\ BucketLocate(r.bucket, k)
                /\ r.overflown <=> Len(TailOf(b)) = DefaultN
                /\ r.overflown <=> (b.size > 0 /\ b.size % DefaultN = 0)
                /\ r.overflown =>
                      r.bucket.slices = Append(b.slices, << k >>)
                /\ ~r.overflown =>
                      r.bucket.slices =
                         [b.slices EXCEPT ![Len(b.slices)] = Append(@, k)]

\* C19 witness: a bucket whose only slice is full, on which Bucket::add
\* returns true, beside a partly filled bucket on which it returns false.
C19_Witness ==
    \E i, j \in 0 .. table_size - 1 :
        \E k \in ScenarioKeys :
            /\ table[i].size = DefaultN
            /\ BucketAdd(DefaultN, table[i], k).overflown
            /\ Len(BucketAdd(DefaultN, table[i], k).bucket.slices) = 2
            /\ table[j].size \in 1 .. DefaultN - 1
            /\ ~BucketAdd(DefaultN, table[j], k).overflown

\* C20 (no counter underflow inside split): at every step of an insert,
\* also right after split() has subtracted the split bucket's size from
\* table_items_size and before the pending increment of add(), the counter
\* is >= 0 as an integer: split never subtracts more than the counter holds.
C20_NoUnderflow == ~last.wrapped

====
